---- MODULE Spec2Model ----
(***************************************************************************)
(* Session registry and request router of the MCP HTTP endpoint            *)
(* (src/app/api/mcp/route.ts) with the request adapter / response          *)
(* collector (src/app/api/mcp/lib/helpers.ts).                             *)
(*                                                                         *)
(* The handlers run on one JavaScript event loop: code between two awaits  *)
(* is one atomic step, and steps of different in-flight calls interleave   *)
(* at the awaits.  GET, DELETE and OPTIONS hold no await before they       *)
(* return, so each is one action.  POST suspends at req.json(), at         *)
(* server.connect(), at transport.handleRequest() and at getResponse().    *)
(*                                                                         *)
(* The protocol engine (StreamableHTTPServerTransport) is external: its    *)
(* steps are the calls it makes into this repository's callbacks and       *)
(* into the response collector, taken nondeterministically.                *)
(***************************************************************************)
EXTENDS Integers, Sequences, FiniteSets, Bags, TLC

\* Number of POST calls that may be suspended at an await at the same time.
MaxCalls == 2
\* Number of transports that initiating calls may construct in one run.
MaxHandles == 2

VARIABLES
    transports,   \* route.ts:92   Map: session id -> transport handle
    sessionIdOf,  \* transport.sessionId of every constructed handle
    calls,        \* the POST calls suspended at an await (a bag of records)
    last,         \* the response returned by the step just taken, if any
    issued,       \* session ids that a response has carried to a caller
    removed,      \* session ids that were deleted from the registry
    NODE_ENV,     \* route.ts:530  process.env.NODE_ENV, fixed for a run
    \* One response collector (helpers.ts:42-185) and what it was given:
    statusCode,       \* helpers.ts:46
    headers,          \* helpers.ts:47  an object: its entries in key order
    chunks,           \* helpers.ts:48  Buffer[]
    headersSent,      \* helpers.ts:49
    responsePromise,  \* helpers.ts:53  pending, or fulfilled with a NextResponse
    written,          \* the chunks as they were passed to write and end
    snapshot,         \* statusCode, headers and written when end first ran
    ops,              \* number of calls made on the collector
    response,         \* helpers.ts:57-59  the data properties of `response`
    \* The request adapter (helpers.ts:5-40) as POST uses it:
    streams,          \* every Readable that createIncomingMessage built
    posts,            \* the POST calls that reached their delegation
    \* The countJapaneseChars tool (tools/countJapaneseChars.ts):
    IntlSegmenter,    \* countJapaneseChars.ts:4  globalThis.Intl?.Segmenter exists
    text,             \* the argument `text` of a tool call
    result            \* what countJapaneseCharsHandler returned for it

routerVars == <<transports, sessionIdOf, calls, last, issued, removed>>

collectorVars ==
    <<statusCode, headers, chunks, headersSent, responsePromise, written,
      snapshot, ops, response>>

adapterVars == <<streams, posts>>

toolVars == <<IntlSegmenter, text, result>>

helperVars == <<collectorVars, adapterVars, toolVars>>

vars == <<routerVars, NODE_ENV, helperVars>>

(***************************************************************************)
(* Values.  A header read with req.headers.get() is null or a string; a    *)
(* transport's sessionId is undefined or a string.                         *)
(***************************************************************************)
Null == [present |-> FALSE, value |-> ""]
Str(s) == [present |-> TRUE, value |-> s]

\* JavaScript truthiness of `string | null`: null and "" are falsy.
Truthy(v) == v.present /\ v.value # ""

\* An envelope's correlation id: absent, or a number.
NoId == [has |-> FALSE, val |-> 0]
Id(n) == [has |-> TRUE, val |-> n]
BodyIds == {NoId, Id(0), Id(1)}

\* `body.id || null`: a falsy id (absent, 0) becomes null.
IdOrNull(id) == IF id.has /\ id.val # 0 THEN id ELSE NoId

\* randomUUID(): the value drawn for the h-th constructed transport.  The
\* ids are opaque and only compared, so the draw is named after the handle
\* it is made for: different draws give different strings.
randomUUID(h) == "uuid-" \o ToString(h)

\* A generator that returns one fixed string.
FixedSessionId(h) == "uuid-1"

\* A generator that numbers sessions by the size of the registry.
SizeBasedSessionId(h) == "uuid-" \o ToString(Cardinality(DOMAIN transports) + 1)

\* route.ts:231  sessionIdGenerator: () => randomUUID()
sessionIdGenerator(h) == randomUUID(h)

\* What req.json() and the reads of the decoded body give the router:
\* "malformed" (req.json() rejects, or the body is the JSON value null and
\* the read of body.method at line 177 throws), an envelope for which
\* isInitializeRequest holds, or any other decoded value.
Bodies ==
    {[kind |-> "malformed", id |-> NoId]}
    \cup {[kind |-> "init", id |-> Id(1)]}
    \cup {[kind |-> "other", id |-> i] : i \in BodyIds}

isInitializeRequest(body) == body.kind = "init"

\* Header values a client can send: none, the empty string, a string that
\* is no session id, and any session id a response has carried so far
\* (a random UUID cannot be guessed before it was returned).
ClientHeaders == {Null, Str(""), Str("bogus")} \cup {Str(s) : s \in issued}

(***************************************************************************)
(* Session registry: the Map operations route.ts uses.                     *)
(***************************************************************************)
Has(map, key) == key \in DOMAIN map

Get(map, key) == IF key \in DOMAIN map THEN map[key] ELSE 0

Set(map, key, h) == [k \in DOMAIN map \cup {key} |-> IF k = key THEN h ELSE map[k]]

Delete(map, key) == [k \in DOMAIN map \ {key} |-> map[k]]

(***************************************************************************)
(* Responses: the method answered, the session id header of the request,   *)
(* whether the call was an initiating one and the handle it was delegated  *)
(* to, then the HTTP status, the JSON-RPC error code (0: none), the        *)
(* mcp-session-id response header, the sessionId of the JSON body and the  *)
(* id of the error envelope.  `data` is error.data.error of a -32603       *)
(* envelope, `before` the registry as it was when the step that returned   *)
(* the response began.                                                     *)
(***************************************************************************)
Response(op, header, init, handle, status, code, sid, bodySid, id) ==
    [op |-> op, header |-> header, init |-> init, handle |-> handle,
     status |-> status, code |-> code, sid |-> sid, bodySid |-> bodySid,
     id |-> id, data |-> Null, before |-> << >>]

\* No response: the step just taken returned nothing to a caller.
NoResponse == Response("none", Null, FALSE, 0, 0, 0, Null, Null, NoId)

\* A session error answered with HTTP 404.
SessionErrorNotFound(header, body) ==
    Response("POST", header, FALSE, 0, 404, -32000, Null, Null, IdOrNull(body.id))

\* route.ts:437-452  the -32000 envelope with HTTP 400
SessionErrorResponse(header, body) ==
    Response("POST", header, FALSE, 0, 400, -32000, Null, Null, IdOrNull(body.id))

\* The values of `error instanceof Error ? error.message : String(error)`
\* for the faults a call can raise.
Errors == {"boom", "bang"}

\* Values of process.env.NODE_ENV.
Environments == {"development", "production"}

\* A -32603 envelope that carries the message in every mode.
InternalErrorResponseVerbose(header, init, handle, error) ==
    [Response("POST", header, init, handle, 500, -32603, Null, Null, NoId)
        EXCEPT !.data = Str(error)]

\* route.ts:523-540  the -32603 envelope with HTTP 500, id null; data only
\* when NODE_ENV is "development"
InternalErrorResponse(header, init, handle, error) ==
    [Response("POST", header, init, handle, 500, -32603, Null, Null, NoId)
        EXCEPT !.data = IF NODE_ENV = "development" THEN Str(error) ELSE Null]

\* helpers.ts:135-138 and route.ts:392-395 / 500-503: the buffered result
\* is returned with the collector's status and headers.
FinalResponse(header, init, handle, collected) ==
    Response("POST", header, init, handle, collected.status, 0,
             collected.sid, Null, NoId)

(***************************************************************************)
(* A suspended POST: where it waits, whether it is an initiating call, the *)
(* registered session id its header named (the one a continuing call      *)
(* looked up, the one an initiating call discarded, null when an           *)
(* initiating call named none), the transport it holds, whether            *)
(* handleRequest has resolved and what the collector's completion signal   *)
(* resolved with.                                                          *)
(***************************************************************************)
NotCollected == [done |-> FALSE, status |-> 0, sid |-> Null]

Call(pc, init, session, transport) ==
    [pc |-> pc, init |-> init, session |-> session, transport |-> transport,
     returned |-> FALSE, collected |-> NotCollected]

InFlight == BagToSet(calls)

Suspend(r) == calls (+) SetToBag({r})

Resume(r) == calls (-) SetToBag({r})

Step(r, r2) == (calls (-) SetToBag({r})) (+) SetToBag({r2})

(***************************************************************************)
(* Response collector (helpers.ts:42-185).  Strings are sequences of       *)
(* UTF-16 code units: "a" an ASCII letter, "H" a high and "L" a low        *)
(* surrogate, "R" U+FFFD.  Buffers are sequences of bytes: "a" the byte of *)
(* the letter, "P" the four bytes of the character a pair H L encodes,     *)
(* "R" the three bytes of U+FFFD, "X" a byte that is no UTF-8.             *)
(***************************************************************************)
\* Number of calls made on one collector.
MaxOps == 4

\* Buffer.from(string): UTF-8, an unpaired surrogate becomes U+FFFD.
RECURSIVE utf8Encode(_)
utf8Encode(str) ==
    IF str = << >> THEN << >>
    ELSE IF Len(str) >= 2 /\ str[1] = "H" /\ str[2] = "L"
    THEN <<"P">> \o utf8Encode(SubSeq(str, 3, Len(str)))
    ELSE IF str[1] \in {"H", "L"}
    THEN <<"R">> \o utf8Encode(Tail(str))
    ELSE <<str[1]>> \o utf8Encode(Tail(str))

\* buffer.toString("utf-8"): a byte that is no UTF-8 becomes U+FFFD.
RECURSIVE utf8Decode(_)
utf8Decode(bytes) ==
    IF bytes = << >> THEN << >>
    ELSE IF bytes[1] = "P" THEN <<"H", "L">> \o utf8Decode(Tail(bytes))
    ELSE IF bytes[1] = "X" THEN <<"R">> \o utf8Decode(Tail(bytes))
    ELSE <<bytes[1]>> \o utf8Decode(Tail(bytes))

\* A chunk given to write or end: a string or a Buffer.
StringChunk(str) == [type |-> "string", data |-> str]
BufferChunk(bytes) == [type |-> "buffer", data |-> bytes]
Chunks ==
    {StringChunk(<<"a">>), StringChunk(<<"H">>), StringChunk(<<"L">>),
     StringChunk(<< >>), BufferChunk(<<"X">>)}

\* No chunk: end() or end(callback).
NoChunk == [type |-> "undefined", data |-> << >>]

\* A buffer that keeps the string's code units as they are.
BufferFromRaw(chunk) == chunk.data

\* helpers.ts:87, 119  Buffer.from(chunk)
BufferFrom(chunk) ==
    IF chunk.type = "string" THEN utf8Encode(chunk.data) ELSE chunk.data

\* helpers.ts:118  if (chunk): undefined and "" are falsy, a Buffer is not
TruthyChunk(chunk) ==
    chunk.type = "buffer" \/ (chunk.type = "string" /\ chunk.data # << >>)

\* Buffer.concat
RECURSIVE BufferConcat(_)
BufferConcat(list) ==
    IF list = << >> THEN << >> ELSE Head(list) \o BufferConcat(Tail(list))

\* Header names, exact, with their lower-case form, and header values: a
\* string or an array of strings.
HeaderNames == {"x-a", "X-A", "x-b"}
toLowerCase(name) == IF name = "X-A" THEN "x-a" ELSE name
StringValue(v) == [array |-> FALSE, items |-> <<v>>]
ArrayValue(vs) == [array |-> TRUE, items |-> vs]
Undefined == [array |-> FALSE, items |-> << >>]
HeaderValues == {StringValue("v"), StringValue("w"), ArrayValue(<<"v", "w">>)}
StatusCodes == {200, 404}

\* An object's own string keys, in the order of their insertion.
ObjectKeys(obj) == {obj[i].name : i \in 1..Len(obj)}

\* obj[name]
ObjectGet(obj, name) ==
    IF name \in ObjectKeys(obj)
    THEN (CHOOSE e \in {obj[i] : i \in 1..Len(obj)} : e.name = name).value
    ELSE Undefined

\* obj[name] = value: a key that exists keeps its place
ObjectSet(obj, name, value) ==
    IF name \in ObjectKeys(obj)
    THEN [i \in 1..Len(obj) |->
            IF obj[i].name = name THEN [name |-> name, value |-> value] ELSE obj[i]]
    ELSE Append(obj, [name |-> name, value |-> value])

\* delete obj[name]
ObjectDelete(obj, name) == SelectSeq(obj, LAMBDA e : e.name # name)

\* Object.assign(obj, source)
RECURSIVE ObjectAssign(_, _)
ObjectAssign(obj, source) ==
    IF source = << >> THEN obj
    ELSE ObjectAssign(ObjectSet(obj, Head(source).name, Head(source).value),
                      Tail(source))

\* helpers.ts:66-68
getHeader(obj, name) == ObjectGet(obj, name)

\* helpers.ts:126-133  one entry per string, one per element of an array
RECURSIVE headerEntries(_)
headerEntries(obj) ==
    IF obj = << >> THEN << >>
    ELSE [i \in 1..Len(Head(obj).value.items) |->
            <<Head(obj).name, Head(obj).value.items[i]>>]
         \o headerEntries(Tail(obj))

\* new Headers(entries): every entry is appended under the lower-case
\* name; a name that is there already gets the value joined with ", ".
\* The result maps a lower-case name to its value ("" when absent).
RECURSIVE HeadersAppendAll(_, _)
HeadersAppendAll(map, entries) ==
    IF entries = << >> THEN map
    ELSE LET n == toLowerCase(Head(entries)[1])
             v == Head(entries)[2]
         IN HeadersAppendAll(
                [map EXCEPT ![n] = IF map[n] = "" THEN v ELSE map[n] \o ", " \o v],
                Tail(entries))

\* The lower-case names in the order Headers iterates: sorted.
SortedNames == <<"x-a", "x-b">>

\* A Headers that keeps the exact names and the last value of each.
HeadersExact(entries) ==
    LET names == {entries[i][1] : i \in 1..Len(entries)}
        lastOf(n) == entries[CHOOSE i \in 1..Len(entries) :
                               /\ entries[i][1] = n
                               /\ \A j \in (i + 1)..Len(entries) : entries[j][1] # n][2]
    IN [list |-> SelectSeq(<<"X-A", "x-a", "x-b">>, LAMBDA n : n \in names),
        get |-> [n \in HeaderNames |-> IF n \in names THEN lastOf(n) ELSE ""]]

\* helpers.ts:137  new Headers(headerEntries): the names it iterates, and
\* get(name) for every exact name (get is case-insensitive)
Headers(entries) ==
    LET map == HeadersAppendAll([n \in {"x-a", "x-b"} |-> ""], entries)
    IN [list |-> SelectSeq(SortedNames, LAMBDA n : map[n] # ""),
        get |-> [n \in HeaderNames |-> map[toLowerCase(n)]]]

\* helpers.ts:124-125  the body: undefined when nothing was buffered
Body(list) ==
    IF Len(list) > 0
    THEN [present |-> TRUE, value |-> utf8Decode(BufferConcat(list))]
    ELSE [present |-> FALSE, value |-> << >>]

\* helpers.ts:135-138  new NextResponse(body, {status, headers})
NextResponse(body, status, hdrs) == [status |-> status, headers |-> hdrs, body |-> body]

\* helpers.ts:52-55  the promise, pending
Pending == [done |-> FALSE, value |-> NextResponse(Body(<< >>), 0, Headers(<< >>))]

\* A resolve that replaces the value the promise was fulfilled with.
resolveResponseAgain(promise, value) == [done |-> TRUE, value |-> value]

\* helpers.ts:54, 141  resolveResponse(value): a promise is settled once; a
\* resolve of a settled promise does nothing
resolveResponse(promise, value) ==
    IF promise.done THEN promise ELSE [done |-> TRUE, value |-> value]

\* What a collector step leaves alone.
notCollector == <<routerVars, NODE_ENV, adapterVars, toolVars>>

\* helpers.ts:46-55  createServerResponse(): the state of a new collector
createServerResponse ==
    /\ statusCode = 200
    /\ headers = << >>
    /\ chunks = << >>
    /\ headersSent = FALSE
    /\ responsePromise = Pending
    /\ written = << >>
    /\ snapshot = [statusCode |-> 0, headers |-> << >>, written |-> << >>]
    /\ ops = 0
    /\ response = [statusCode |-> 200]

Called == ops < MaxOps /\ ops' = ops + 1

\* helpers.ts:61-64
setHeader(name, value) ==
    /\ Called
    /\ headers' = ObjectSet(headers, name, value)
    /\ UNCHANGED <<statusCode, chunks, headersSent, responsePromise, written, snapshot>>
    /\ UNCHANGED response
    /\ UNCHANGED notCollector

\* helpers.ts:78-80
removeHeader(name) ==
    /\ Called
    /\ headers' = ObjectDelete(headers, name)
    /\ UNCHANGED <<statusCode, chunks, headersSent, responsePromise, written, snapshot>>
    /\ UNCHANGED response
    /\ UNCHANGED notCollector

\* helpers.ts:82-97
write(chunk) ==
    /\ Called
    /\ chunks' = Append(chunks, BufferFrom(chunk))
    /\ written' = Append(written, chunk)
    /\ UNCHANGED <<statusCode, headers, headersSent, responsePromise, snapshot>>
    /\ UNCHANGED response
    /\ UNCHANGED notCollector

\* helpers.ts:99-148
end(chunk) ==
    /\ Called
    /\ chunks' = IF TruthyChunk(chunk) THEN Append(chunks, BufferFrom(chunk)) ELSE chunks
    /\ written' = IF chunk # NoChunk THEN Append(written, chunk) ELSE written
    /\ headersSent' = TRUE
    /\ responsePromise' =
         resolveResponse(responsePromise,
             NextResponse(Body(chunks'), statusCode, Headers(headerEntries(headers))))
    /\ snapshot' = IF responsePromise.done THEN snapshot
                   ELSE [statusCode |-> statusCode, headers |-> headers,
                         written |-> written']
    /\ UNCHANGED <<statusCode, headers, response>>
    /\ UNCHANGED notCollector

\* The header objects the engine passes to writeHead.
HeadObjects ==
    {<< >>,
     <<[name |-> "X-A", value |-> StringValue("w")],
       [name |-> "x-b", value |-> StringValue("v")]>>}

\* helpers.ts:150-169
writeHead(code, messageOrHeaders) ==
    /\ Called
    /\ statusCode' = code
    /\ response' = [response EXCEPT !.statusCode = code]
    /\ headers' = ObjectAssign(headers, messageOrHeaders)
    /\ headersSent' = TRUE
    /\ UNCHANGED <<chunks, responsePromise, written, snapshot>>
    /\ UNCHANGED notCollector

\* helpers.ts:58  `statusCode` is a writable data property of `response`:
\* the engine's assignment response.statusCode = code stores into the
\* object and reaches none of the variables of the closure
assignStatusCode(code) ==
    /\ Called
    /\ response' = [response EXCEPT !.statusCode = code]
    /\ UNCHANGED <<statusCode, headers, chunks, headersSent, responsePromise,
                   written, snapshot>>
    /\ UNCHANGED notCollector

CollectorNext ==
    \/ \E name \in HeaderNames, value \in HeaderValues : setHeader(name, value)
    \/ \E name \in HeaderNames : removeHeader(name)
    \/ \E chunk \in Chunks : write(chunk)
    \/ \E chunk \in Chunks \cup {NoChunk} : end(chunk)
    \/ \E code \in StatusCodes, h \in HeadObjects : writeHead(code, h)
    \/ \E code \in StatusCodes : assignStatusCode(code)

(***************************************************************************)
(* Request adapter (helpers.ts:5-40) and its use by POST (route.ts:339-372 *)
(* and 489-492).  A decoded body is a JSON value, given with the text      *)
(* JSON.stringify returns for it.                                          *)
(***************************************************************************)
\* Number of POST calls that reach their delegation in one run.
MaxPosts == 2

JsonValues ==
    {[type |-> "object", text |-> "{\"id\":1}"],
     [type |-> "object", text |-> "{\"id\":2}"],
     [type |-> "number", text |-> "0"],
     [type |-> "string", text |-> "\"\""]}

\* No body: the parameter `body?: unknown` left out.  JSON.stringify gives
\* undefined for it, written here as the text "undefined".
Absent == [type |-> "undefined", text |-> "undefined"]

\* Truthiness of these values: an object is truthy; 0, "" and undefined
\* are falsy.
TruthyValue(body) == body.type = "object"

JSONstringify(body) == body.text

\* A body string that is JSON.stringify(body) whatever the body is.
bodyStringUnguarded(body) == JSONstringify(body)

\* helpers.ts:14  const bodyString = body ? JSON.stringify(body) : ""
bodyString(body) == IF TruthyValue(body) THEN JSONstringify(body) ELSE ""

\* helpers.ts:18  Readable.from([bodyString]): a stream over the items of
\* the array, none of them yielded yet; `readers` are those that called
\* next() on it.
ReadableFrom(req, items) ==
    [req |-> req, items |-> items, pos |-> 0, ended |-> FALSE, readers |-> {}]

\* One next() of the stream's async iterator by `who`: the next item, or
\* the end.
ReadableNext(stream, who) ==
    IF stream.pos < Len(stream.items)
    THEN [stream EXCEPT !.pos = @ + 1, !.readers = @ \cup {who}]
    ELSE [stream EXCEPT !.ended = TRUE, !.readers = @ \cup {who}]

\* An adapter that keeps the stream it built for a request and returns it
\* again.
createIncomingMessageCached(heap, req, body) ==
    IF \E i \in 1..Len(heap) : heap[i].req = req
    THEN [heap |-> heap, ref |-> CHOOSE i \in 1..Len(heap) : heap[i].req = req]
    ELSE [heap |-> Append(heap, ReadableFrom(req, <<bodyString(body)>>)),
          ref |-> Len(heap) + 1]

\* helpers.ts:5-40  createIncomingMessage(req, body): a new Readable on
\* every call
createIncomingMessage(heap, req, body) ==
    [heap |-> Append(heap, ReadableFrom(req, <<bodyString(body)>>)),
     ref |-> Len(heap) + 1]

\* What an adapter step leaves alone.
notAdapter == <<routerVars, NODE_ENV, collectorVars, toolVars>>

AdapterIdle == streams = << >> /\ posts = << >>

\* route.ts:339 (initiating) and 489-492 (continuing): the call builds its
\* incomingMessage; a continuing call hands it to handleRequest at once.
\* An initiating body is an envelope (isInitializeRequest), so an object.
Delegate(init, body) ==
    /\ Len(posts) < MaxPosts
    /\ init => body.type = "object"
    /\ LET m == createIncomingMessage(streams, Len(posts) + 1, body) IN
         /\ streams' = m.heap
         /\ posts' = Append(posts,
                [init |-> init, body |-> body,
                 pc |-> IF init THEN "reading" ELSE "engine",
                 incomingMessage |-> m.ref, incomingMessage2 |-> 0,
                 handed |-> IF init THEN 0 ELSE m.ref,
                 readData |-> << >>, received |-> << >>])
    /\ UNCHANGED notAdapter

\* helpers.ts:5-8  createIncomingMessage(req) called without a body; the
\* stream goes to its reader as it is.
AdaptWithoutBody ==
    /\ Len(posts) < MaxPosts
    /\ LET m == createIncomingMessage(streams, Len(posts) + 1, Absent) IN
         /\ streams' = m.heap
         /\ posts' = Append(posts,
                [init |-> FALSE, body |-> Absent, pc |-> "engine",
                 incomingMessage |-> m.ref, incomingMessage2 |-> 0,
                 handed |-> m.ref, readData |-> << >>, received |-> << >>])
    /\ UNCHANGED notAdapter

\* route.ts:355-358  one iteration of `for await (const chunk of
\* incomingMessage)` that gets a chunk
DiagnosticRead(c) ==
    /\ c \in 1..Len(posts)
    /\ posts[c].pc = "reading"
    /\ LET m == posts[c].incomingMessage IN
         /\ streams[m].pos < Len(streams[m].items)
         /\ ~streams[m].ended
         /\ streams' = [streams EXCEPT ![m] = ReadableNext(@, <<c, "diagnostic">>)]
         /\ posts' = [posts EXCEPT ![c].readData =
                         Append(@, streams[m].items[streams[m].pos + 1])]
    /\ UNCHANGED notAdapter

\* route.ts:356-372  the iteration that finds the stream at its end: the
\* loop is left, incomingMessage2 is built and handed to handleRequest
DiagnosticEnd(c) ==
    /\ c \in 1..Len(posts)
    /\ posts[c].pc = "reading"
    /\ LET m == posts[c].incomingMessage
           read == [streams EXCEPT ![m] = ReadableNext(@, <<c, "diagnostic">>)]
           m2 == createIncomingMessage(read, c, posts[c].body)
       IN
         /\ streams[m].pos >= Len(streams[m].items) \/ streams[m].ended
         /\ streams' = m2.heap
         /\ posts' = [posts EXCEPT ![c].pc = "engine",
                                   ![c].incomingMessage2 = m2.ref,
                                   ![c].handed = m2.ref]
    /\ UNCHANGED notAdapter

\* The engine, inside handleRequest, reads the stream it was handed: one
\* next() that gets a chunk, or the end.
EngineRead(c) ==
    /\ c \in 1..Len(posts)
    /\ posts[c].pc = "engine"
    /\ LET m == posts[c].handed
           more == streams[m].pos < Len(streams[m].items) /\ ~streams[m].ended
       IN
         /\ streams' = [streams EXCEPT ![m] = ReadableNext(@, <<c, "engine">>)]
         /\ posts' = IF more
                     THEN [posts EXCEPT ![c].received =
                              Append(@, streams[m].items[streams[m].pos + 1])]
                     ELSE [posts EXCEPT ![c].pc = "done"]
    /\ UNCHANGED notAdapter

AdapterNext ==
    \/ \E init \in BOOLEAN, body \in JsonValues : Delegate(init, body)
    \/ AdaptWithoutBody
    \/ \E c \in 1..MaxPosts : DiagnosticRead(c)
    \/ \E c \in 1..MaxPosts : DiagnosticEnd(c)
    \/ \E c \in 1..MaxPosts : EngineRead(c)

(***************************************************************************)
(* The countJapaneseChars tool (tools/countJapaneseChars.ts).  A text is   *)
(* the sequence of its code points, each given by its class: "K" a kana    *)
(* or a kanji of the basic plane, "S" a kanji outside it (a surrogate      *)
(* pair), "E" an emoji (Extended_Pictographic), "RI" a regional indicator, *)
(* "ZWJ" the zero width joiner, "CM" a combining mark (Extend).            *)
(***************************************************************************)
\* Length of the texts drawn besides the samples.
MaxTextLen == 3

CodePoints == {"K", "S", "E", "RI", "ZWJ", "CM"}

Konnichiwa == <<"K", "K", "K", "K", "K">>
KonnichiwaWave == <<"K", "K", "K", "K", "K", "E">>
Flag == <<"RI", "RI">>
Family == <<"E", "ZWJ", "E", "ZWJ", "E", "ZWJ", "E">>
Yoshinoya == <<"S", "K", "K">>
Combining == <<"K", "CM">>

Samples == {Konnichiwa, KonnichiwaWave, Flag, Family, Yoshinoya, Combining}

Texts == Samples \cup UNION {[1..n -> CodePoints] : n \in 0..MaxTextLen}

\* Array.from(text).length: the number of code points
ArrayFromLength(t) == Len(t)

\* The number of regional indicators that end at position i without a gap.
RECURSIVE RegionalRun(_, _)
RegionalRun(t, i) ==
    IF i = 0 \/ t[i] # "RI" THEN 0 ELSE 1 + RegionalRun(t, i - 1)

\* A segmenter that does not join emoji over a zero width joiner.
NoBreakWithoutJoiner(t, i) ==
    \/ t[i + 1] \in {"CM", "ZWJ"}
    \/ t[i] = "RI" /\ t[i + 1] = "RI" /\ RegionalRun(t, i) % 2 = 1

\* Intl.Segmenter, granularity "grapheme": no boundary between t[i] and
\* t[i+1] before a combining mark or a joiner, between an emoji sequence
\* ending in a joiner and the next emoji, and inside a pair of regional
\* indicators.
NoBreak(t, i) ==
    \/ t[i + 1] \in {"CM", "ZWJ"}
    \/ /\ t[i] = "ZWJ"
       /\ t[i + 1] = "E"
       /\ \E j \in 1..(i - 1) :
            t[j] = "E" /\ \A m \in (j + 1)..(i - 1) : t[m] = "CM"
    \/ t[i] = "RI" /\ t[i + 1] = "RI" /\ RegionalRun(t, i) % 2 = 1

\* Array.from(segmenter.segment(text)).length
SegmentsLength(t) ==
    Cardinality({i \in 1..Len(t) : i = 1 \/ ~NoBreak(t, i - 1)})

\* countJapaneseChars.ts:3-15
countJapaneseGraphemes(t) ==
    IF ~IntlSegmenter THEN ArrayFromLength(t) ELSE SegmentsLength(t)

\* countJapaneseChars.ts:44  the text of the first content item: the label
\* (three kanji and ": ") followed by the count
CountLine(count) == [label |-> "mojisuu: ", count |-> count]

\* countJapaneseChars.ts:31-51  the handler's return value
countJapaneseCharsHandler(t) ==
    LET count == countJapaneseGraphemes(t)
        json == [count |-> count, text |-> t, graphemeCount |-> count]
    IN [content |-> <<[type |-> "text", text |-> CountLine(count)],
                      [type |-> "text", text |-> [json |-> json]]>>]

\* No tool call has returned.
NoResult == [content |-> << >>]

\* What a tool call leaves alone.
notTool == <<routerVars, NODE_ENV, collectorVars, adapterVars>>

ToolIdle == IntlSegmenter = TRUE /\ text = << >> /\ result = NoResult

\* A tools/call of countJapaneseChars with the argument t.
CallTool(t) ==
    /\ text' = t
    /\ result' = countJapaneseCharsHandler(t)
    /\ UNCHANGED IntlSegmenter
    /\ UNCHANGED notTool

ToolNext == \E t \in Texts : CallTool(t)

RouterIdle ==
    /\ transports = << >>
    /\ sessionIdOf = << >>
    /\ calls = EmptyBag
    /\ last = NoResponse
    /\ issued = {}
    /\ removed = {}

Init ==
    /\ transports = << >>
    /\ sessionIdOf = << >>
    /\ calls = EmptyBag
    /\ last = NoResponse
    /\ issued = {}
    /\ removed = {}
    /\ NODE_ENV \in Environments
    /\ createServerResponse
    /\ AdapterIdle
    /\ ToolIdle

\* Bookkeeping every action shares: ids that left the registry in this step.
Track == removed' = removed \cup (DOMAIN transports \ DOMAIN transports')

\* A step that returns no response to any caller.
Silent == last' = NoResponse

\* A step that returns `resp` to a caller.
Answer(resp) == last' = [resp EXCEPT !.before = transports]

\* An initiating call that leaves the old entry in place.
CleanupExistingKeeps(map, sessionId) == map

\* An initiating call that spares the old entry while a call is in flight
\* on its handle.
CleanupExistingSparing(map, sessionId) ==
    IF /\ Truthy(sessionId)
       /\ Has(map, sessionId.value)
       /\ \A x \in InFlight : x.transport # Get(map, sessionId.value)
    THEN Delete(map, sessionId.value)
    ELSE map

\* route.ts:204-208  an initiating call discards the entry its header names
CleanupExisting(map, sessionId) ==
    IF Truthy(sessionId) /\ Has(map, sessionId.value)
    THEN Delete(map, sessionId.value)
    ELSE map

\* route.ts:205  the registered session id that an initiating call names
Superseded(map, sessionId) ==
    IF Truthy(sessionId) /\ Has(map, sessionId.value) THEN sessionId ELSE Null

\* A lookup that falls back to some registered transport.
LookupLenient(map, sessionId) ==
    IF Truthy(sessionId) /\ Has(map, sessionId.value)
    THEN Get(map, sessionId.value)
    ELSE IF DOMAIN map # {} THEN map[CHOOSE k \in DOMAIN map : TRUE] ELSE 0

\* route.ts:415-417  the lookup of a continuing call; 0 when it fails
Lookup(map, sessionId) ==
    IF Truthy(sessionId) /\ Has(map, sessionId.value)
    THEN Get(map, sessionId.value)
    ELSE 0

\* route.ts:154-180, 506-541  req.json() rejects, or the decoded body is
\* null and the read of body.method throws: the catch answers
PostMalformed ==
    /\ \E error \in Errors : Answer(InternalErrorResponse(Null, FALSE, 0, error))
    /\ UNCHANGED <<transports, sessionIdOf, calls, issued, removed>>
    /\ UNCHANGED <<NODE_ENV, helperVars>>

\* An initiating call that registers its handle as soon as it is constructed.
PostInitiateEager(sessionId) ==
    /\ BagCardinality(calls) < MaxCalls
    /\ Len(sessionIdOf) < MaxHandles
    /\ transports' = Set(CleanupExisting(transports, sessionId), "pending",
                         Len(sessionIdOf) + 1)
    /\ sessionIdOf' = Append(sessionIdOf, Null)
    /\ calls' = Suspend(Call("connect", TRUE, Superseded(transports, sessionId),
                           Len(sessionIdOf) + 1))
    /\ Silent
    /\ Track
    /\ UNCHANGED issued
    /\ UNCHANGED <<NODE_ENV, helperVars>>

\* route.ts:201-326  an initiating call up to its await of server.connect
PostInitiate(sessionId) ==
    /\ BagCardinality(calls) < MaxCalls
    /\ Len(sessionIdOf) < MaxHandles
    /\ transports' = CleanupExisting(transports, sessionId)
    /\ sessionIdOf' = Append(sessionIdOf, Null)
    /\ calls' = Suspend(Call("connect", TRUE, Superseded(transports, sessionId),
                           Len(sessionIdOf) + 1))
    /\ Silent
    /\ Track
    /\ UNCHANGED issued
    /\ UNCHANGED <<NODE_ENV, helperVars>>

\* A continuing call whose membership check saw the registry of an earlier
\* moment, and whose get reads the registry as it is now.
PostContinueStaleCheck(sessionId) ==
    /\ BagCardinality(calls) < MaxCalls
    /\ Truthy(sessionId)
    /\ sessionId.value \in DOMAIN transports \cup removed
    /\ calls' = Suspend(Call("handle", FALSE, sessionId,
                           Get(transports, sessionId.value)))
    /\ Silent
    /\ UNCHANGED <<transports, sessionIdOf, issued, removed>>
    /\ UNCHANGED <<NODE_ENV, helperVars>>

\* A continuing call that waits while another call on its session is in
\* flight.
PostContinueSerialized(sessionId) ==
    /\ BagCardinality(calls) < MaxCalls
    /\ Lookup(transports, sessionId) # 0
    /\ \A r \in InFlight : r.transport # Lookup(transports, sessionId)
    /\ calls' = Suspend(Call("handle", FALSE, sessionId, Lookup(transports, sessionId)))
    /\ Silent
    /\ UNCHANGED <<transports, sessionIdOf, issued, removed>>
    /\ UNCHANGED <<NODE_ENV, helperVars>>

\* route.ts:415-417, 487-492  a continuing call whose lookup succeeds, up
\* to its await of transport.handleRequest
PostContinue(sessionId) ==
    /\ BagCardinality(calls) < MaxCalls
    /\ Lookup(transports, sessionId) # 0
    /\ calls' = Suspend(Call("handle", FALSE, sessionId, Lookup(transports, sessionId)))
    /\ Silent
    /\ UNCHANGED <<transports, sessionIdOf, issued, removed>>
    /\ UNCHANGED <<NODE_ENV, helperVars>>

\* route.ts:418-453  a continuing call whose lookup fails
PostInvalidSession(sessionId, body) ==
    /\ Lookup(transports, sessionId) = 0
    /\ Answer(SessionErrorResponse(sessionId, body))
    /\ UNCHANGED <<transports, sessionIdOf, calls, issued, removed>>
    /\ UNCHANGED <<NODE_ENV, helperVars>>

\* A POST that looks at the session id header before the envelope: an
\* initiating envelope with an id that is not registered is a session error.
PostRouteHeaderFirst(sessionId, body) ==
    CASE body.kind = "malformed" -> PostMalformed
      [] isInitializeRequest(body) /\ Truthy(sessionId)
           /\ ~Has(transports, sessionId.value) ->
             PostInvalidSession(sessionId, body)
      [] isInitializeRequest(body) -> PostInitiate(sessionId)
      [] OTHER -> \/ PostContinue(sessionId)
                  \/ PostInvalidSession(sessionId, body)

\* A POST that discards the entry its header names before it finds that the
\* body cannot be decoded.
PostRouteDecodeLate(sessionId, body) ==
    CASE body.kind = "malformed" ->
           /\ \E error \in Errors : Answer(InternalErrorResponse(Null, FALSE, 0, error))
           /\ transports' = CleanupExisting(transports, sessionId)
           /\ Track
           /\ UNCHANGED <<sessionIdOf, calls, issued, NODE_ENV, helperVars>>
      [] isInitializeRequest(body) -> PostInitiate(sessionId)
      [] OTHER -> \/ PostContinue(sessionId)
                  \/ PostInvalidSession(sessionId, body)

\* route.ts:153-492  POST from its entry to its first await after the body
\* is decoded, or to its return.  The await of req.json() touches nothing
\* shared, so the header read and the routing are one step.
PostRoute(sessionId, body) ==
    CASE body.kind = "malformed" -> PostMalformed
      [] isInitializeRequest(body) -> PostInitiate(sessionId)
      [] OTHER -> \/ PostContinue(sessionId)
                  \/ PostInvalidSession(sessionId, body)

POST == \E sessionId \in ClientHeaders, body \in Bodies : PostRoute(sessionId, body)

\* route.ts:326-372  server.connect resolved; the adapter and the collector
\* are built and transport.handleRequest is called
PostConnect(r) ==
    /\ r.pc = "connect"
    /\ calls' = Step(r, [r EXCEPT !.pc = "handle"])
    /\ Silent
    /\ UNCHANGED <<transports, sessionIdOf, issued, removed>>
    /\ UNCHANGED <<NODE_ENV, helperVars>>

\* route.ts:326, 506-541  server.connect rejected
ConnectThrow(r) ==
    /\ r.pc = "connect"
    /\ \E error \in Errors :
         Answer(InternalErrorResponse(r.session, TRUE, r.transport, error))
    /\ calls' = Resume(r)
    /\ UNCHANGED <<transports, sessionIdOf, issued, removed>>
    /\ UNCHANGED <<NODE_ENV, helperVars>>

\* A callback that reads one `transport` variable shared by all calls.
onsessioninitializedShared(map, sid, transport) == Set(map, sid, 1)

\* A callback that stores the transport under a second key as well.
onsessioninitializedAlias(map, sid, transport) ==
    Set(Set(map, sid, transport), "latest", transport)

\* A callback that reads a `transport` variable of the module, which holds
\* the handle constructed last.
onsessioninitializedLatest(map, sid, transport) ==
    Set(map, sid, Len(sessionIdOf))

\* route.ts:264-272  onsessioninitialized: (sid) => transports.set(sid, transport)
onsessioninitialized(map, sid, transport) ==
    IF transport # 0 THEN Set(map, sid, transport) ELSE map

\* A registration under the session id the client sent, when it sent one.
SessionInitializedTrustingClient(r) ==
    /\ r.pc = "handle"
    /\ r.init
    /\ ~r.returned
    /\ ~sessionIdOf[r.transport].present
    /\ LET sid == sessionIdGenerator(r.transport) IN
         /\ sessionIdOf' = [sessionIdOf EXCEPT ![r.transport] = Str(sid)]
         /\ transports' = Set(transports,
                              IF Truthy(r.session) THEN r.session.value ELSE sid,
                              r.transport)
    /\ Silent
    /\ Track
    /\ UNCHANGED <<calls, issued>>
    /\ UNCHANGED <<NODE_ENV, helperVars>>

\* route.ts:231, 264-272  the engine, inside handleRequest of an initiating
\* call, draws the handle's id from sessionIdGenerator and reports it
SessionInitialized(r) ==
    /\ r.pc = "handle"
    /\ r.init
    /\ ~r.returned
    /\ ~sessionIdOf[r.transport].present
    /\ LET sid == sessionIdGenerator(r.transport) IN
         /\ sessionIdOf' = [sessionIdOf EXCEPT ![r.transport] = Str(sid)]
         /\ transports' = onsessioninitialized(transports, sid, r.transport)
    /\ Silent
    /\ Track
    /\ UNCHANGED <<calls, issued>>
    /\ UNCHANGED <<NODE_ENV, helperVars>>

\* What the engine may write into the collector of a call: a success
\* (200, with the handle's session id header) once the handle has its id,
\* or a response of its own without the header (400).
EngineOutcomes(r) ==
    (IF sessionIdOf[r.transport].present
     THEN {[done |-> TRUE, status |-> 200, sid |-> sessionIdOf[r.transport]]}
     ELSE {})
    \cup {[done |-> TRUE, status |-> 400, sid |-> Null]}

\* One collector shared by the calls delegated to a handle: the end of the
\* response finalizes the collector of every call waiting on that handle.
CollectorEndShared(r) ==
    /\ r.pc = "handle"
    /\ ~r.collected.done
    /\ \E out \in EngineOutcomes(r) :
         LET sharing == {x \in InFlight : /\ x.transport = r.transport
                                          /\ x.pc = "handle"
                                          /\ ~x.collected.done}
             ended(x) == [x EXCEPT !.collected = out]
             rest == DOMAIN calls \ sharing
         IN calls' = [y \in rest \cup {ended(x) : x \in sharing} |->
                        (IF y \in rest THEN calls[y] ELSE 0)
                        + (IF \E x \in sharing : ended(x) = y
                           THEN calls[CHOOSE x \in sharing : ended(x) = y]
                           ELSE 0)]
    /\ Silent
    /\ UNCHANGED <<transports, sessionIdOf, issued, removed>>
    /\ UNCHANGED <<NODE_ENV, helperVars>>

\* route.ts:341, 490 and helpers.ts:99-148  the engine ends the response
\* of a call: the collector that call constructed assembles the buffered
\* response and resolves its completion signal
CollectorEnd(r) ==
    /\ r.pc = "handle"
    /\ ~r.collected.done
    /\ \E out \in EngineOutcomes(r) :
         calls' = Step(r, [r EXCEPT !.collected = out])
    /\ Silent
    /\ UNCHANGED <<transports, sessionIdOf, issued, removed>>
    /\ UNCHANGED <<NODE_ENV, helperVars>>

\* route.ts:372, 492  await transport.handleRequest(...) resolves
HandleRequestReturn(r) ==
    /\ r.pc = "handle"
    /\ ~r.returned
    /\ calls' = Step(r, [r EXCEPT !.returned = TRUE])
    /\ Silent
    /\ UNCHANGED <<transports, sessionIdOf, issued, removed>>
    /\ UNCHANGED <<NODE_ENV, helperVars>>

\* A rejection of transport.handleRequest(...) that no handler catches: the
\* call ends without a response of the router.
HandleRequestThrowUncaught(r) ==
    /\ r.pc = "handle"
    /\ ~r.returned
    /\ Silent
    /\ calls' = Resume(r)
    /\ UNCHANGED <<transports, sessionIdOf, issued, removed>>
    /\ UNCHANGED <<NODE_ENV, helperVars>>

\* route.ts:374-381, 506-541  transport.handleRequest(...) rejects
HandleRequestThrow(r) ==
    /\ r.pc = "handle"
    /\ ~r.returned
    /\ \E error \in Errors :
         Answer(InternalErrorResponse(r.session, r.init, r.transport, error))
    /\ calls' = Resume(r)
    /\ UNCHANGED <<transports, sessionIdOf, issued, removed>>
    /\ UNCHANGED <<NODE_ENV, helperVars>>

\* A router that looks the session up again before it returns, and answers
\* a continuing call whose session is gone with the session error.
PostEmitRechecking(r) ==
    /\ r.pc = "handle"
    /\ r.returned
    /\ r.collected.done
    /\ Answer(IF r.init \/ Lookup(transports, r.session) # 0
              THEN FinalResponse(r.session, r.init, r.transport, r.collected)
              ELSE SessionErrorResponse(r.session, [kind |-> "other", id |-> NoId]))
    /\ issued' = issued \cup
         (IF last'.sid.present THEN {last'.sid.value} ELSE {})
    /\ calls' = Resume(r)
    /\ UNCHANGED <<transports, sessionIdOf, removed>>
    /\ UNCHANGED <<NODE_ENV, helperVars>>

\* A router that returns what the collector holds without awaiting the
\* delegation.
PostEmitUnsettled(r) ==
    /\ r.pc = "handle"
    /\ r.collected.done
    /\ Answer(FinalResponse(r.session, r.init, r.transport, r.collected))
    /\ issued' = issued \cup
         (IF last'.sid.present THEN {last'.sid.value} ELSE {})
    /\ calls' = Resume(r)
    /\ UNCHANGED <<transports, sessionIdOf, removed>>
    /\ UNCHANGED <<NODE_ENV, helperVars>>

\* route.ts:384-399, 494-505  getResponse() resolved: the buffered result
\* is returned to the caller
PostEmit(r) ==
    /\ r.pc = "handle"
    /\ r.returned
    /\ r.collected.done
    /\ Answer(FinalResponse(r.session, r.init, r.transport, r.collected))
    /\ issued' = issued \cup
         (IF last'.sid.present THEN {last'.sid.value} ELSE {})
    /\ calls' = Resume(r)
    /\ UNCHANGED <<transports, sessionIdOf, removed>>
    /\ UNCHANGED <<NODE_ENV, helperVars>>

\* A session-closed callback that drops every session.
onsessionclosedAll(map, sid) == << >>

\* route.ts:288-294  onsessionclosed: (sid) => transports.delete(sid)
onsessionclosed(map, sid) == Delete(map, sid)

\* The engine reports the session of handle h closed.
SessionClosed(h) ==
    /\ h \in 1..Len(sessionIdOf)
    /\ sessionIdOf[h].present
    /\ transports' = onsessionclosed(transports, sessionIdOf[h].value)
    /\ Silent
    /\ Track
    /\ UNCHANGED <<sessionIdOf, calls, issued>>
    /\ UNCHANGED <<NODE_ENV, helperVars>>

\* A close handler that empties the registry.
oncloseClear(map, sid) == << >>

\* route.ts:306-312  transport.onclose
onclose(map, sid) == IF Truthy(sid) THEN Delete(map, sid.value) ELSE map

\* The transport of handle h closes.
TransportClose(h) ==
    /\ h \in 1..Len(sessionIdOf)
    /\ transports' = onclose(transports, sessionIdOf[h])
    /\ Silent
    /\ Track
    /\ UNCHANGED <<sessionIdOf, calls, issued>>
    /\ UNCHANGED <<NODE_ENV, helperVars>>

\* A probe that reports every named session active.
GetResponseAlwaysActive(map, sessionId) ==
    IF Truthy(sessionId)
    THEN Response("GET", sessionId, FALSE, 0, 200, 0, Null, sessionId, NoId)
    ELSE Response("GET", sessionId, FALSE, 0, 200, 0, Null, Null, NoId)

\* route.ts:561-623
GetResponse(map, sessionId) ==
    IF Truthy(sessionId) /\ Has(map, sessionId.value)
    THEN Response("GET", sessionId, FALSE, 0, 200, 0, Null, sessionId, NoId)
    ELSE IF Truthy(sessionId)
    THEN Response("GET", sessionId, FALSE, 0, 404, 0, Null, Null, NoId)
    ELSE Response("GET", sessionId, FALSE, 0, 200, 0, Null, Null, NoId)

\* A probe that evicts the session it names.
GETEvicting(sessionId) ==
    /\ Answer(GetResponse(transports, sessionId))
    /\ transports' = CleanupExisting(transports, sessionId)
    /\ Track
    /\ UNCHANGED <<sessionIdOf, calls, issued>>
    /\ UNCHANGED <<NODE_ENV, helperVars>>

GET(sessionId) ==
    /\ Answer(GetResponse(transports, sessionId))
    /\ UNCHANGED <<transports, sessionIdOf, calls, issued, removed>>
    /\ UNCHANGED <<NODE_ENV, helperVars>>

\* A DELETE that reports success for a session it does not know.
DeleteResponseLenient(map, sessionId) ==
    IF ~Truthy(sessionId)
    THEN Response("DELETE", sessionId, FALSE, 0, 400, 0, Null, Null, NoId)
    ELSE Response("DELETE", sessionId, FALSE, 0, 200, 0, Null, sessionId, NoId)

\* route.ts:670-744  the response of DELETE
DeleteResponse(map, sessionId) ==
    IF ~Truthy(sessionId)
    THEN Response("DELETE", sessionId, FALSE, 0, 400, 0, Null, Null, NoId)
    ELSE IF ~Has(map, sessionId.value)
    THEN Response("DELETE", sessionId, FALSE, 0, 404, 0, Null, Null, NoId)
    ELSE Response("DELETE", sessionId, FALSE, 0, 200, 0, Null, sessionId, NoId)

\* A DELETE that empties the registry.
DeleteRegistryClear(map, sessionId) ==
    IF ~Truthy(sessionId) THEN map
    ELSE IF ~Has(map, sessionId.value) THEN map
    ELSE << >>

\* route.ts:677-723  the registry after DELETE
DeleteRegistry(map, sessionId) ==
    IF ~Truthy(sessionId) THEN map
    ELSE IF ~Has(map, sessionId.value) THEN map
    ELSE Delete(map, sessionId.value)

\* A DELETE that also closes the transport: the calls in flight on it end.
DELETEClosingTransport(sessionId) ==
    /\ Answer(DeleteResponse(transports, sessionId))
    /\ transports' = DeleteRegistry(transports, sessionId)
    /\ calls' = [r \in {x \in DOMAIN calls :
                          x.transport # Lookup(transports, sessionId)} |-> calls[r]]
    /\ Track
    /\ UNCHANGED <<sessionIdOf, issued>>
    /\ UNCHANGED <<NODE_ENV, helperVars>>

DELETE(sessionId) ==
    /\ Answer(DeleteResponse(transports, sessionId))
    /\ transports' = DeleteRegistry(transports, sessionId)
    /\ Track
    /\ UNCHANGED <<sessionIdOf, calls, issued>>
    /\ UNCHANGED <<NODE_ENV, helperVars>>

\* route.ts:115-121
OPTIONS ==
    /\ Answer(Response("OPTIONS", Null, FALSE, 0, 204, 0, Null, Null, NoId))
    /\ UNCHANGED <<transports, sessionIdOf, calls, issued, removed>>
    /\ UNCHANGED <<NODE_ENV, helperVars>>

Next ==
    \/ POST
    \/ \E r \in InFlight : PostConnect(r)
    \/ \E r \in InFlight : ConnectThrow(r)
    \/ \E r \in InFlight : SessionInitialized(r)
    \/ \E r \in InFlight : CollectorEnd(r)
    \/ \E r \in InFlight : HandleRequestReturn(r)
    \/ \E r \in InFlight : HandleRequestThrow(r)
    \/ \E r \in InFlight : PostEmit(r)
    \/ \E h \in 1..MaxHandles : SessionClosed(h)
    \/ \E h \in 1..MaxHandles : TransportClose(h)
    \/ \E sessionId \in ClientHeaders : GET(sessionId)
    \/ \E sessionId \in ClientHeaders : DELETE(sessionId)
    \/ OPTIONS

Spec == Init /\ [][Next]_vars

\* The event loop runs the continuation of a call whose awaits have both
\* resolved (route.ts:372-399, 492-505): a call that can return its
\* buffered response is not left waiting forever.
FairSpec == Init /\ [][Next]_vars /\ WF_vars(\E r \in InFlight : PostEmit(r))

\* One response collector on its own, driven by any calls of its user.
CollectorInit ==
    /\ RouterIdle
    /\ NODE_ENV = "production"
    /\ createServerResponse
    /\ AdapterIdle
    /\ ToolIdle

CollectorSpec == CollectorInit /\ [][CollectorNext]_vars

\* The request adapter as the POST calls use it.
AdapterInit ==
    /\ RouterIdle
    /\ NODE_ENV = "production"
    /\ createServerResponse
    /\ AdapterIdle
    /\ ToolIdle

AdapterSpec == AdapterInit /\ [][AdapterNext]_vars

\* The tool on its own, in a runtime with or without Intl.Segmenter.
ToolInit ==
    /\ RouterIdle
    /\ NODE_ENV = "production"
    /\ createServerResponse
    /\ AdapterIdle
    /\ IntlSegmenter \in BOOLEAN
    /\ text = << >>
    /\ result = NoResult

ToolSpec == ToolInit /\ [][ToolNext]_vars

(***************************************************************************)
(* Properties.                                                             *)
(***************************************************************************)
Handles == 1..Len(sessionIdOf)

Keys == DOMAIN transports

\* The last response is the session error of the router.
IsSessionError(resp) == resp.op = "POST" /\ resp.status = 400 /\ resp.code = -32000

\* C1: an initiating POST that completes successfully returns a session id
\* header holding the id generated for the handle this call constructed,
\* an id that no earlier response carried and no other handle has.
C1_FreshSessionIdHeader ==
    [][\A r \in InFlight :
         (PostEmit(r) /\ r.init /\ r.collected.status = 200) =>
            /\ last'.sid.present
            /\ last'.sid = sessionIdOf[r.transport]
            /\ last'.sid.value \notin issued
            /\ \A h \in Handles : h # r.transport => sessionIdOf[h] # last'.sid]_vars

C1_Witness ==
    /\ last.op = "POST" /\ last.init /\ last.status = 200
    /\ last.sid.present
    /\ Cardinality(issued) = 2

\* C2: while a session id is registered, a continuing POST naming it gets
\* no session error and is delegated to the handle that owns the id, the
\* one its initiating call registered; several such calls may be in flight.
C2_ContinuingReachesSameHandle ==
    /\ \A r \in InFlight :
         ~r.init => Truthy(r.session) /\ sessionIdOf[r.transport] = r.session
    /\ IsSessionError(last) =>
         ~(Truthy(last.header) /\ Has(last.before, last.header.value))
    /\ (last.op = "POST" /\ ~last.init /\ last.handle # 0) =>
         sessionIdOf[last.handle] = last.header

C2_Witness ==
    /\ last.op = "POST" /\ ~last.init /\ last.status = 200
    /\ \E r \in InFlight : ~r.init /\ r.transport = last.handle

\* C3: a continuing POST without a session id header (none, or the empty
\* string) is answered 400 with code -32000 whatever its envelope holds; no
\* call is delegated and the registry stays as it was.
C3_MissingSession ==
    [][\A h \in ClientHeaders, b \in Bodies :
         (~Truthy(h) /\ b.kind = "other" /\ PostRoute(h, b)) =>
            /\ IsSessionError(last')
            /\ last'.handle = 0
            /\ calls' = calls
            /\ transports' = transports
            /\ sessionIdOf' = sessionIdOf]_vars

C3_Witness ==
    /\ IsSessionError(last)
    /\ ~last.header.present
    /\ Keys # {}

\* C4: a continuing POST whose header names an id that is not registered is
\* answered 400 with code -32000; no call is delegated, no handle is
\* constructed and the registry stays as it was.
C4_UnknownSession ==
    [][\A h \in ClientHeaders, b \in Bodies :
         (Truthy(h) /\ ~Has(transports, h.value) /\ b.kind = "other"
            /\ PostRoute(h, b)) =>
            /\ IsSessionError(last')
            /\ last'.handle = 0
            /\ calls' = calls
            /\ transports' = transports
            /\ sessionIdOf' = sessionIdOf]_vars

C4_Witness ==
    /\ IsSessionError(last)
    /\ Truthy(last.header)
    /\ last.header.value \in removed
    /\ Keys # {}

\* C5: DELETE with a registered id answers 200 and removes that entry and
\* no other; from then on the id stays out of the registry, a continuing
\* POST naming it is answered 400 with code -32000 and a GET naming it 404.
C5_TerminationThenUnknown ==
    [][/\ \A h \in ClientHeaders :
            (Truthy(h) /\ Has(transports, h.value) /\ DELETE(h)) =>
               /\ last'.status = 200
               /\ h.value \in removed'
               /\ transports' = Delete(transports, h.value)
               /\ \A k \in Keys \ {h.value} :
                    Has(transports', k) /\ transports'[k] = transports[k]
       /\ \A s \in removed : s \in removed' /\ ~Has(transports', s)
       /\ \A h \in ClientHeaders, b \in Bodies :
            (h.value \in removed /\ b.kind = "other" /\ PostRoute(h, b)) =>
               IsSessionError(last')
       /\ \A h \in ClientHeaders :
            (h.value \in removed /\ GET(h)) => last'.status = 404]_vars

C5_Witness ==
    /\ last.op = "DELETE" /\ last.status = 200
    /\ last.header.value \in removed
    /\ Keys # {}

\* C6: a DELETE that names no registered session fails and changes
\* nothing: 400 without a session id header, 404 with an unregistered id,
\* and the registry is as it was before the call.
C6_FailedTermination ==
    /\ (last.op = "DELETE" /\ ~Truthy(last.header)) =>
         last.status = 400 /\ transports = last.before
    /\ (last.op = "DELETE" /\ Truthy(last.header)
          /\ ~Has(last.before, last.header.value)) =>
         last.status = 404 /\ transports = last.before

C6_Witness ==
    /\ last.op = "DELETE" /\ last.status = 404
    /\ Truthy(last.header)
    /\ Keys # {}

\* C7: an initiating call whose header names a registered id discards that
\* entry; the id its new handle is given differs from the old one, the new
\* handle is registered under the new id only, and the old id is not in
\* the registry when the call returns.
C7_ReinitiationSupersedes ==
    /\ \A r \in InFlight :
         (r.init /\ Truthy(r.session)) =>
            /\ ~Has(transports, r.session.value)
            /\ r.session.value \in removed
            /\ sessionIdOf[r.transport] # r.session
    /\ (last.op = "POST" /\ last.init /\ Truthy(last.header)) =>
         /\ ~Has(transports, last.header.value)
         /\ last.sid # last.header
         /\ sessionIdOf[last.handle] # last.header
         /\ \A k \in Keys : transports[k] = last.handle =>
              Str(k) = sessionIdOf[last.handle]

C7_Witness ==
    /\ last.op = "POST" /\ last.init /\ last.status = 200
    /\ Truthy(last.header)
    /\ Has(transports, last.sid.value)
    /\ transports[last.sid.value] = last.handle

\* C8: the registry holds one entry per id, and an id goes from unused to
\* registered to removed and never back: a generated id is either
\* registered or removed, never both, and a removed id is never a key.
C8_IdLifecycle ==
    /\ \A s \in removed : ~Has(transports, s)
    /\ \A h \in Handles :
         sessionIdOf[h].present =>
            (Has(transports, sessionIdOf[h].value)
               \/ sessionIdOf[h].value \in removed)
    /\ \A k \in Keys \cup removed :
         Cardinality({h \in Handles : sessionIdOf[h] = Str(k)}) = 1

C8_Witness ==
    /\ removed # {}
    /\ Keys # {}
    /\ Len(sessionIdOf) = MaxHandles

\* C9: every key of the registry is the id that sessionIdGenerator produced
\* for the handle stored under it; a session id sent by the client with an
\* initiating call is never a key after that call.
C9_ServerGeneratedKeys ==
    /\ \A k \in Keys :
         /\ transports[k] \in Handles
         /\ sessionIdOf[transports[k]] = Str(k)
         /\ k = sessionIdGenerator(transports[k])
    /\ \A h \in {Str(""), Str("bogus")} : ~Has(transports, h.value)
    /\ (last.op = "POST" /\ last.init /\ Truthy(last.header)) =>
         ~Has(transports, last.header.value)

C9_Witness ==
    /\ last.op = "POST" /\ last.init /\ last.status = 200
    /\ Truthy(last.header)
    /\ Has(transports, last.sid.value)
    /\ Has(last.before, last.sid.value)

\* C10: the three removal triggers (DELETE, the session-closed callback,
\* transport onclose) are idempotent: one that finds the entry removes it,
\* one that finds it gone leaves the registry unchanged and raises no
\* fault (the callbacks return, DELETE answers 404).
C10_IdempotentRemoval ==
    [][/\ \A h \in Handles :
            ((SessionClosed(h) \/ TransportClose(h)) /\ sessionIdOf[h].present) =>
               /\ transports' = Delete(transports, sessionIdOf[h].value)
               /\ ~Has(transports, sessionIdOf[h].value) => transports' = transports
               /\ last' = NoResponse
       /\ \A h \in ClientHeaders :
            (Truthy(h) /\ DELETE(h)) =>
               /\ transports' = Delete(transports, h.value)
               /\ ~Has(transports, h.value) =>
                    transports' = transports /\ last'.status = 404]_vars

C10_Witness ==
    /\ last.op = "DELETE" /\ last.status = 404
    /\ last.header.value \in removed
    /\ Keys = {}

\* The last response is the internal error envelope of the router.
IsInternalError(resp) == resp.op = "POST" /\ resp.status = 500 /\ resp.code = -32603

\* C11: when transport.handleRequest rejects, for an initiating or a
\* continuing call, the router answers that call with HTTP 500 and code
\* -32603; only that call ends, the other calls in flight are kept, and the
\* entry points go on answering.
C11_DelegationFaultCaught ==
    /\ [][\A r \in InFlight :
            HandleRequestThrow(r) =>
               /\ IsInternalError(last')
               /\ last'.init = r.init
               /\ last'.handle = r.transport
               /\ calls' = Resume(r)]_vars
    /\ [](IsInternalError(last) =>
            /\ ENABLED POST
            /\ ENABLED OPTIONS
            /\ ENABLED (\E sessionId \in ClientHeaders : GET(sessionId)))

C11_Witness ==
    /\ IsInternalError(last)
    /\ ~last.init
    /\ last.handle # 0
    /\ calls # EmptyBag

\* C12: a handle is reachable from the registry only once the id-assigned
\* callback ran for it; an initiating call that fails (connect or
\* delegation throws) before that leaves no entry for its handle.
C12_NoHalfRegisteredSession ==
    /\ \A h \in Handles :
         ~sessionIdOf[h].present => \A k \in Keys : transports[k] # h
    /\ (IsInternalError(last) /\ last.init
          /\ ~sessionIdOf[last.handle].present) =>
         /\ \A k \in Keys : transports[k] # last.handle
         /\ \A k \in DOMAIN last.before : last.before[k] # last.handle

C12_Witness ==
    /\ IsInternalError(last)
    /\ last.init
    /\ ~sessionIdOf[last.handle].present
    /\ Keys # {}

\* C13: a POST whose body cannot be decoded is answered 500 with code
\* -32603 before any routing: the registry is not touched, no handle is
\* constructed and no call is delegated, whatever the header names.
C13_MalformedBeforeRouting ==
    [][\A h \in ClientHeaders, b \in Bodies :
         (b.kind = "malformed" /\ PostRoute(h, b)) =>
            /\ IsInternalError(last')
            /\ last'.handle = 0
            /\ transports' = transports
            /\ sessionIdOf' = sessionIdOf
            /\ calls' = calls]_vars

C13_Witness ==
    /\ IsInternalError(last)
    /\ ~last.init
    /\ last.handle = 0
    /\ Keys # {}
    /\ calls # EmptyBag

\* C14: GET answers from the registry as it is and leaves it alone: 200
\* without a session id, 404 with an id that is not registered, 200 with the
\* id echoed when it is registered.
C14_HealthProbe ==
    last.op = "GET" =>
       /\ transports = last.before
       /\ ~Truthy(last.header) => (last.status = 200 /\ ~last.bodySid.present)
       /\ (Truthy(last.header) /\ ~Has(last.before, last.header.value)) =>
            last.status = 404
       /\ (Truthy(last.header) /\ Has(last.before, last.header.value)) =>
            (last.status = 200 /\ last.bodySid = last.header)

C14_Witness ==
    /\ last.op = "GET"
    /\ last.status = 200
    /\ last.bodySid.present
    /\ removed # {}

\* C15: a -32603 envelope carries the raised error's message (data) in
\* development mode only; in any other mode it has no data, so the
\* responses to two faults that differ only in the error are the same.
C15_DiagnosticOnlyInDevelopment ==
    /\ IsInternalError(last) =>
         (last.data.present <=> NODE_ENV = "development")
    /\ (IsInternalError(last) /\ NODE_ENV = "development") =>
         last.data.value \in Errors
    /\ NODE_ENV # "development" =>
         \A e1 \in Errors, e2 \in Errors, init \in BOOLEAN, h \in Handles \cup {0} :
            InternalErrorResponse(Null, init, h, e1) = InternalErrorResponse(Null, init, h, e2)

C15_Witness ==
    /\ IsInternalError(last)
    /\ NODE_ENV = "production"
    /\ last.handle # 0
    /\ ~last.data.present

\* The data of the chunks of a list, one after the other.
RECURSIVE ChunkData(_)
ChunkData(list) ==
    IF list = << >> THEN << >> ELSE Head(list).data \o ChunkData(Tail(list))

\* The value of a header as one string: the elements of an array joined.
RECURSIVE JoinItems(_)
JoinItems(items) ==
    IF items = << >> THEN ""
    ELSE IF Len(items) = 1 THEN items[1]
    ELSE items[1] \o ", " \o JoinItems(Tail(items))

\* The lower-case names of an object's keys in order, each once.
RECURSIVE LowerNames(_)
LowerNames(obj) ==
    IF obj = << >> THEN << >>
    ELSE LET rest == LowerNames(SubSeq(obj, 1, Len(obj) - 1))
             n == toLowerCase(obj[Len(obj)].name)
         IN IF \E i \in 1..Len(rest) : rest[i] = n THEN rest ELSE Append(rest, n)

\* C16: the body resolved at the first end is the concatenation, in call
\* order, of the chunks given to write before it and of the chunk given to
\* that end: the same code units when the chunks are strings, the same
\* bytes when they are Buffers.
C16_BodyIsConcatenation ==
    responsePromise.done =>
       /\ (\A i \in 1..Len(snapshot.written) : snapshot.written[i].type = "string") =>
            responsePromise.value.body.value = ChunkData(snapshot.written)
       /\ (\A i \in 1..Len(snapshot.written) : snapshot.written[i].type = "buffer") =>
            utf8Encode(responsePromise.value.body.value) = ChunkData(snapshot.written)

\* C17: the promise is settled once, with the response the first end
\* assembled from the status, headers and chunks it found; no later call on
\* the collector changes the value the awaiting caller gets.
C17_ResolvedOnceImmutable ==
    /\ [][responsePromise.done => responsePromise' = responsePromise]_vars
    /\ [](responsePromise.done =>
            /\ responsePromise.value.status = snapshot.statusCode
            /\ responsePromise.value.headers = Headers(headerEntries(snapshot.headers))
            /\ responsePromise.value.body.value =
                 utf8Decode(BufferConcat([i \in 1..Len(snapshot.written) |->
                                            BufferFrom(snapshot.written[i])])))

C17_Witness ==
    /\ responsePromise.done
    /\ statusCode # snapshot.statusCode
    /\ headers # snapshot.headers
    /\ Len(chunks) > Len(snapshot.written)
    /\ headersSent

\* C18: an end on a collector that was ended already is a no-op: it
\* appends no chunk and leaves the collector's state as it was.
C18_SecondFinalizeNoOp ==
    [][\A chunk \in Chunks \cup {NoChunk} :
         (responsePromise.done /\ end(chunk)) =>
            UNCHANGED <<statusCode, headers, chunks, headersSent, responsePromise>>]_vars

\* C19: after any setHeader, writeHead and removeHeader calls the response
\* resolved at end holds, for every exact name, the value getHeader gave
\* for it (the last one set and not removed, an array as its elements in
\* order), and emits the names in the order of their first insertion.
C19_HeadersLastWriteWins ==
    responsePromise.done =>
       /\ \A n \in ObjectKeys(snapshot.headers) :
            responsePromise.value.headers.get[n] =
               JoinItems(getHeader(snapshot.headers, n).items)
       /\ responsePromise.value.headers.list = LowerNames(snapshot.headers)

RECURSIVE ConcatStrings(_)
ConcatStrings(list) ==
    IF list = << >> THEN "" ELSE Head(list) \o ConcatStrings(Tail(list))

\* The serialization of a body value: its JSON text, nothing for no body.
Serialization(body) == IF body = Absent THEN "" ELSE JSONstringify(body)

\* C21: for every body value the chunks of the stream the adapter builds,
\* one after the other, are the serialization of the body, and a reader
\* gets exactly them before the end.
C21_ChunksEqualSerialization ==
    /\ \A i \in 1..Len(streams) :
         ConcatStrings(streams[i].items) = Serialization(posts[streams[i].req].body)
    /\ \A c \in 1..Len(posts) :
         posts[c].pc = "done" =>
            /\ ConcatStrings(posts[c].received) = Serialization(posts[c].body)
            /\ streams[posts[c].handed].ended

\* C22: without a body the adapter builds a stream that delivers no byte
\* and then ends; its reader reaches the end.
C22_EmptyBody ==
    \A c \in 1..Len(posts) :
       posts[c].body = Absent =>
          /\ ConcatStrings(streams[posts[c].handed].items) = ""
          /\ ConcatStrings(posts[c].received) = ""
          /\ posts[c].pc = "done" => streams[posts[c].handed].ended
          /\ streams[posts[c].handed].ended => posts[c].pc = "done"

C22_Witness ==
    \E c \in 1..Len(posts) :
       /\ posts[c].body = Absent
       /\ posts[c].pc = "done"
       /\ streams[posts[c].handed].pos = 1

\* C23: DELETE is a plain removal: it takes the named entry out of the
\* registry and touches nothing else: no other entry, no handle (its
\* session id stays, it is not closed) and no call in flight, on the
\* removed session or on another.
C23_DirectRemoval ==
    [][\A h \in ClientHeaders :
         DELETE(h) =>
            /\ calls' = calls
            /\ sessionIdOf' = sessionIdOf
            /\ DOMAIN transports' = Keys \ {h.value}
            /\ \A k \in DOMAIN transports' : transports'[k] = transports[k]]_vars

C23_Witness ==
    /\ last.op = "DELETE"
    /\ last.status = 200
    /\ \E r \in InFlight : sessionIdOf[r.transport] = last.header
    /\ Keys # {}

\* C24: an initiating envelope is routed by its shape alone: with no
\* header, an unregistered id or a registered id it constructs a new handle
\* and suspends at connect, and it is never answered with the session error.
C24_InitiatingByShape ==
    /\ [][\A h \in ClientHeaders, b \in Bodies :
            (isInitializeRequest(b) /\ PostRoute(h, b)) =>
               /\ Len(sessionIdOf') = Len(sessionIdOf) + 1
               /\ last' = NoResponse
               /\ \E r \in BagToSet(calls') :
                    r.init /\ r.pc = "connect" /\ r.transport = Len(sessionIdOf')]_vars
    /\ []((BagCardinality(calls) < MaxCalls /\ Len(sessionIdOf) < MaxHandles) =>
            \A h \in ClientHeaders : ENABLED PostInitiate(h))
    /\ [](IsSessionError(last) => ~last.init)

C24_Witness ==
    /\ \E r \in InFlight :
         r.init /\ r.pc = "connect" /\ Truthy(r.session) /\ r.session.value \in removed
    /\ Len(sessionIdOf) = 2

\* C25: check and use are one step: a continuing call in flight holds a
\* defined handle, in every interleaving (its session may be removed while
\* it is suspended), and a DELETE answered 200 removed an entry that was
\* there.
C25_CompoundOperationsAtomic ==
    /\ \A r \in InFlight : ~r.init => r.transport \in Handles
    /\ (last.op = "DELETE" /\ last.status = 200) =>
         /\ Has(last.before, last.header.value)
         /\ ~Has(transports, last.header.value)
    /\ (last.op = "POST" /\ ~last.init /\ last.status = 200) =>
         last.handle \in Handles

C25_Witness ==
    /\ last.op = "DELETE"
    /\ last.status = 200
    /\ \E r \in InFlight : ~r.init /\ r.session = last.header
    /\ last.header.value \in removed

\* C26: calls on one session are not serialized: while a continuing call
\* on a registered session is in flight, another one naming the same id
\* can be delegated and cannot be answered with the session error; calls
\* in flight on one session hold the same handle.
C26_NoSerialization ==
    /\ \A r \in InFlight :
         (~r.init /\ Lookup(transports, r.session) # 0
            /\ BagCardinality(calls) < MaxCalls) =>
            /\ ENABLED PostContinue(r.session)
            /\ ~ENABLED (\E b \in Bodies : PostInvalidSession(r.session, b))
    /\ \A r1 \in InFlight, r2 \in InFlight :
         (~r1.init /\ ~r2.init /\ r1.session = r2.session) =>
            r1.transport = r2.transport

C26_Witness ==
    \E r1 \in InFlight, r2 \in InFlight :
       /\ ~r1.init /\ ~r2.init
       /\ r1.session = r2.session
       /\ r1.transport = r2.transport
       /\ r1.returned /\ r1.collected.done
       /\ ~r2.returned /\ ~r2.collected.done

C28_OneHandleOneSession ==
    /\ \A k1 \in Keys, k2 \in Keys : transports[k1] = transports[k2] => k1 = k2
    /\ \A k \in Keys : Str(k) = sessionIdOf[transports[k]]
    /\ \A h \in Handles : Cardinality({k \in Keys : transports[k] = h}) <= 1

C28_Witness ==
    /\ Cardinality(Keys) = 2
    /\ removed = {}
    /\ calls = EmptyBag

\* The count the tool reported for the text of the last call.
Reported == result.content[1].text.count

C30_ToolResult ==
    result # NoResult =>
       /\ \E i \in 1..Len(result.content) :
            /\ result.content[i].type = "text"
            /\ result.content[i].text = CountLine(countJapaneseGraphemes(text))
       /\ "structuredContent" \in DOMAIN result
       /\ result.structuredContent =
            [count |-> countJapaneseGraphemes(text), text |-> text]

\* The number of calls in flight whose collector was finalized.
Finalized(bag) ==
    BagCardinality([r \in {x \in DOMAIN bag : x.collected.done} |-> bag[r]])

\* C31: every delegated POST has a collector of its own: a finalize ends
\* the collector of one call only, also when another call on the same
\* session is in flight, a finalized collector holds what the engine wrote
\* for that call's handle, and the response returned for a call is the
\* buffered result of that call's collector.
C31_OwnCollector ==
    /\ [](\A r \in InFlight :
            (r.collected.done /\ r.collected.sid.present) =>
               r.collected.sid = sessionIdOf[r.transport])
    /\ [][/\ Finalized(calls') <= Finalized(calls) + 1
          /\ (last'.op = "POST" /\ last'.code = 0) =>
               \E r \in InFlight :
                  /\ r.collected.done
                  /\ calls' = Resume(r)
                  /\ last'.handle = r.transport
                  /\ last'.status = r.collected.status
                  /\ last'.sid = r.collected.sid]_vars

C31_Witness ==
    \E r1 \in InFlight, r2 \in InFlight :
       /\ ~r1.init /\ ~r2.init
       /\ r1.session = r2.session
       /\ r1.transport = r2.transport
       /\ r1.collected.done
       /\ r1.collected.status = 200
       /\ ~r2.collected.done

\* A call whose delegation returned and whose collector was finalized.
Completed(r) == r.pc = "handle" /\ r.returned /\ r.collected.done

C33_ConcurrentInitiations ==
    /\ [][\A h \in 1..Len(sessionIdOf) :
            (~sessionIdOf[h].present /\ sessionIdOf'[h].present) =>
               /\ ~Has(transports, sessionIdOf'[h].value)
               /\ transports' = Set(transports, sessionIdOf'[h].value, h)]_vars
    /\ [](\A h1 \in 1..Len(sessionIdOf), h2 \in 1..Len(sessionIdOf) :
            (/\ h1 # h2
             /\ sessionIdOf[h1].present /\ sessionIdOf[h1].value \notin removed
             /\ sessionIdOf[h2].present /\ sessionIdOf[h2].value \notin removed) =>
               /\ sessionIdOf[h1].value # sessionIdOf[h2].value
               /\ Get(transports, sessionIdOf[h1].value) = h1
               /\ Get(transports, sessionIdOf[h2].value) = h2)

C33_Witness ==
    \E r1 \in InFlight, r2 \in InFlight :
       /\ r1.init /\ r2.init
       /\ r1.transport = 1 /\ r2.transport = 2
       /\ r1.pc = "handle" /\ r2.pc = "handle"
       /\ sessionIdOf[2].present /\ sessionIdOf[1].present
       /\ r2.returned /\ r2.collected.status = 200
       /\ DOMAIN transports = {sessionIdOf[1].value, sessionIdOf[2].value}
       /\ transports[sessionIdOf[1].value] = 1
       /\ transports[sessionIdOf[2].value] = 2

\* C34: a close event of handle h (its session-closed callback or its
\* transport's onclose), at any time, leaves every entry that holds another
\* handle in place and unchanged; an onclose of a handle that has no id yet
\* leaves the registry as it is.
C34_CloseRemovesOwnEntryOnly ==
    [][\A h \in 1..Len(sessionIdOf) :
         /\ (SessionClosed(h) \/ TransportClose(h)) =>
              \A k \in DOMAIN transports :
                 transports[k] # h =>
                    Has(transports', k) /\ transports'[k] = transports[k]
         /\ (TransportClose(h) /\ ~sessionIdOf[h].present) =>
              transports' = transports]_vars

C34_Witness ==
    /\ Len(sessionIdOf) = 2
    /\ sessionIdOf[1].present
    /\ sessionIdOf[1].value \in removed
    /\ sessionIdOf[2].present
    /\ Has(transports, sessionIdOf[2].value)
    /\ transports[sessionIdOf[2].value] = 2
    /\ \E r \in InFlight : r.transport = 1 /\ ~r.init

\* C35: a POST that ends in an internal failure (500, -32603) leaves the
\* registry as it was when the call arrived: the session that an
\* initiating call's header named is still registered, and the handle the
\* call constructed, which did not exist when it arrived, holds no entry.
C35_FailureLeavesRegistry ==
    (IsInternalError(last) /\ last.init) =>
       /\ last.header.present => Has(transports, last.header.value)
       /\ \A k \in DOMAIN transports : transports[k] # last.handle

\* C36: from the routing step of an initiating call that names the
\* registered id s on, no continuing POST with s is admitted: while the new
\* handle is being connected and has no id, and at any later time, the
\* lookup of s fails and a continuing POST with s is answered with the
\* session error and suspends no call; the calls admitted to the new
\* handle named the new handle's own id.
C36_SupersededNotAdmitted ==
    /\ [](\A r \in InFlight :
            (r.init /\ Truthy(r.session)) =>
               /\ Lookup(transports, r.session) = 0
               /\ \A x \in InFlight :
                    x.transport = r.transport /\ ~x.init =>
                       x.session # r.session /\ x.session = sessionIdOf[r.transport])
    /\ [][/\ \A r \in InFlight, b \in Bodies :
               (r.init /\ Truthy(r.session) /\ b.kind = "other"
                  /\ PostRoute(r.session, b)) =>
                  IsSessionError(last') /\ calls' = calls
          /\ \A b \in Bodies :
               (last.op = "POST" /\ last.init /\ Truthy(last.header)
                  /\ b.kind = "other" /\ PostRoute(last.header, b)) =>
                  IsSessionError(last') /\ calls' = calls
          /\ \A h \in ClientHeaders, b \in Bodies :
               (h.value \in removed /\ b.kind = "other" /\ PostRoute(h, b)) =>
                  IsSessionError(last') /\ calls' = calls]_vars

C36_Witness ==
    /\ IsSessionError(last)
    /\ Truthy(last.header)
    /\ \E r \in InFlight :
         /\ r.init
         /\ r.session = last.header
         /\ r.pc = "connect"
         /\ ~sessionIdOf[r.transport].present

\* C37: a continuing POST suspended in its delegation holds the handle
\* that was registered under its id when it looked it up; a removal of its
\* session (DELETE, a close event, a re-initiation) leaves the call as it
\* is, and the call returns the buffered response of the engine also when
\* its session is no longer registered; a continuing POST that looks the
\* id up after the removal is answered with the session error.
C37_SuspendedCallSurvivesRemoval ==
    /\ [](\A r \in InFlight :
            ~r.init =>
               /\ sessionIdOf[r.transport] = r.session
               /\ Completed(r) => ENABLED PostEmit(r))
    /\ [][/\ \A r \in InFlight :
               (~r.init /\ DOMAIN transports' # DOMAIN transports) =>
                  /\ r \in DOMAIN calls'
                  /\ calls'[r] = calls[r]
          /\ \A r \in InFlight :
               (~r.init /\ PostEmit(r)) =>
                  /\ last'.code = 0
                  /\ last'.handle = r.transport
                  /\ last'.status = r.collected.status
                  /\ last'.sid = r.collected.sid
          /\ \A r \in InFlight, b \in Bodies :
               (/\ ~r.init
                /\ ~Has(transports, r.session.value)
                /\ b.kind = "other"
                /\ PostRoute(r.session, b)) =>
                  IsSessionError(last') /\ calls' = calls]_vars

C37_Witness ==
    /\ last.op = "POST"
    /\ ~last.init
    /\ last.code = 0
    /\ last.status = 200
    /\ last.header.value \in removed
    /\ ~Has(last.before, last.header.value)
    /\ last.sid = last.header

\* C38: the id of a session-error envelope (-32000) is the correlation id
\* of the request envelope when the request carries one, and null only
\* when it carries none.
C38_SessionErrorEchoesId ==
    [][\A h \in ClientHeaders, b \in Bodies :
         (b.kind = "other" /\ PostInvalidSession(h, b)) =>
            /\ IsSessionError(last')
            /\ last'.id = b.id]_vars

\* C39: the status of the buffered response is the status the engine last
\* set on the collector before the finalize (with writeHead, or by
\* assigning response.statusCode), and 200 when it set none.
C39_StatusLastSet ==
    [][\A chunk \in Chunks \cup {NoChunk} :
         (~responsePromise.done /\ end(chunk)) =>
            responsePromise'.value.status = response.statusCode]_vars

====
